---- MODULE Spec2Model ----
(***************************************************************************)
(* conda-project: the environment state evaluator (is_locked, is_prepared), *)
(* the orchestrator (lock, prepare, clean) of conda_project/models.py and   *)
(* the project facade (environments, commands, check) of                    *)
(* conda_project/project.py.                                                *)
(*                                                                          *)
(* The external collaborators are modelled by their contract at the call    *)
(* site: conda-lock (make_lock_spec, make_lock_files,                       *)
(* render_lockfile_for_platform) and the conda executable (create, list,    *)
(* env remove, env config vars set).  Every call that can fail has its      *)
(* outcome drawn nondeterministically.  The read-only queries `conda info`  *)
(* and `conda list` and the parsing of the source files are taken to        *)
(* succeed.                                                                 *)
(***************************************************************************)
EXTENDS Integers, Sequences, FiniteSets, TLC

(* ------------------------------ bounds --------------------------------- *)

\* number of distinct dependency lists a source file can hold
MaxDeps == 2

\* longest list of environments / of commands of a descriptor (SpecProject)
MaxEnvs == 2
MaxCommands == 2

(* --------------------------- optional values --------------------------- *)

\* Python's None and a present value, for Optional[...] fields
None == [some |-> FALSE, val |-> {}]
Some(v) == [some |-> TRUE, val |-> v]

(* ------------------------------ platforms ------------------------------ *)

\* conda.py current_platform(): the "platform" entry of `conda info --json`
CurrentPlatform == "osx-arm64"

\* models.py: DEFAULT_PLATFORMS
DEFAULT_PLATFORMS == {"osx-64", "win-64", "linux-64", CurrentPlatform}

(* ---------------------------- source files ----------------------------- *)

\* project_file.py EnvironmentYaml: the fields the evaluator reads.
\* dependencies is the identity of the dependency list (1..MaxDeps).
EnvironmentYaml(ch, pl, deps, vars) ==
    [channels |-> ch, platforms |-> pl, dependencies |-> deps, variables |-> vars]

\* a python dict {} and a one-entry dict
EmptyDict == <<>>
OneVar == [k \in {"FOO"} |-> "bar"]

\* dict.update
DictUpdate(d1, d2) ==
    [k \in (DOMAIN d1) \cup (DOMAIN d2) |-> IF k \in DOMAIN d2 THEN d2[k] ELSE d1[k]]

\* elements of a sequence
Range(s) == {s[i] : i \in DOMAIN s}

\* `for channel in chs: if channel not in acc: acc.append(channel)`
RECURSIVE AppendNew(_, _)
AppendNew(acc, chs) ==
    IF chs = <<>> THEN acc
    ELSE AppendNew(IF Head(chs) \in Range(acc) THEN acc ELSE Append(acc, Head(chs)),
                   Tail(chs))

\* the loop of _overrides over the sources: channels in first-seen order
RECURSIVE specified_channels(_)
specified_channels(srcs) ==
    IF srcs = <<>> THEN <<>>
    ELSE LET n == Len(srcs)
             env == srcs[n]
         IN AppendNew(specified_channels(SubSeq(srcs, 1, n - 1)),
                      IF env.channels.some THEN env.channels.val ELSE <<>>)

\* the loop of _overrides over the sources: the union of the declared platforms
specified_platforms(srcs) ==
    UNION {srcs[i].platforms.val : i \in {j \in DOMAIN srcs : srcs[j].platforms.some}}

\* Environment._overrides
channel_overrides(srcs) ==
    IF specified_channels(srcs) = <<>> THEN Some(<<"defaults">>) ELSE None

platform_overrides(srcs) ==
    IF specified_platforms(srcs) = {} THEN Some(DEFAULT_PLATFORMS) ELSE None

(* --------------------- conda-lock: the lock specification -------------- *)

\* the dependency lists of the sources, in source order
DepsOf(srcs) == [i \in DOMAIN srcs |-> srcs[i].dependencies]

\* make_lock_spec(...).platforms: the override when given, else the declared ones
spec_platforms(srcs, po) ==
    IF po.some THEN po.val ELSE specified_platforms(srcs)

\* make_lock_spec(...).channels: the override when given, else the declared ones
spec_channels(srcs, co) ==
    IF co.some THEN co.val ELSE specified_channels(srcs)

\* spec.content_hash_for_platform(p): a digest of the channels, the dependencies
\* and the platform (an ideal hash: distinct inputs give distinct digests)
content_hash_for_platform(srcs, co, p) ==
    <<spec_channels(srcs, co), DepsOf(srcs), p>>

(* ------------------------------ lockfile ------------------------------- *)

\* no file at Environment.lockfile
NoLockfile == [exists |-> FALSE, platforms |-> {}, content_hash |-> <<>>, package |-> <<>>]

\* names of the packages the dependency lists resolve to, by source position
DepNames == <<"numpy", "pandas">>

\* one locked package: its url and its md5
Pkg(name, d, p) ==
    [url |-> <<"https://conda.anaconda.org", name, d, p>>, hash |-> <<"md5", name, d, p>>]

\* the solver's result for one platform: an ordered package list
Solve(deps, p) ==
    <<Pkg("python", deps[1], p)>> \o [i \in DOMAIN deps |-> Pkg(DepNames[i], deps[i], p)]

\* the lockfile make_lock_files writes on success
make_lock_files(srcs, po, co) ==
    LET plats == spec_platforms(srcs, po)
    IN [exists |-> TRUE,
        platforms |-> plats,
        content_hash |-> [p \in plats |-> content_hash_for_platform(srcs, co, p)],
        package |-> [p \in plats |-> Solve(DepsOf(srcs), p)]]

(* ------------------------------ is_locked ------------------------------ *)

\* is_locked with any() where the code has all()
is_locked_any(srcs, lf) ==
    LET co == channel_overrides(srcs)
        po == platform_overrides(srcs)
    IN IF lf.exists
       THEN \E p \in spec_platforms(srcs, po) :
                /\ p \in lf.platforms
                /\ content_hash_for_platform(srcs, co, p) = lf.content_hash[p]
       ELSE FALSE

\* Environment.is_locked
is_locked(srcs, lf) ==
    LET co == channel_overrides(srcs)
        po == platform_overrides(srcs)
    IN IF lf.exists
       THEN \A p \in spec_platforms(srcs, po) :
                /\ p \in lf.platforms
                /\ content_hash_for_platform(srcs, co, p) = lf.content_hash[p]
       ELSE FALSE

(* ------------------------- text lines and lists ------------------------ *)

\* A line of text is the sequence of its '#'-separated fields; a field is a
\* tuple.  p.split("#")[0] is the line made of the first field alone.
SplitHash0(line) == <<line[1]>>

\* s[3:]
Drop3(s) == SubSeq(s, 4, Len(s))

\* render_lockfile_for_platform(kind="explicit"): three comment lines, the
\* @EXPLICIT line, then "url#md5" for each package locked for the platform
render_lockfile_for_platform(lf, platform) ==
    LET pk == IF platform \in lf.platforms THEN lf.package[platform] ELSE <<>>
    IN << << <<"">>, <<" Generated by conda-lock.">> >>,
          << <<"">>, <<" platform: ">> >>,
          << <<"">>, <<" input_hash: ">> >>,
          << <<"@EXPLICIT">> >> >>
       \o [i \in DOMAIN pk |-> <<pk[i].url, pk[i].hash>>]

(* ------------------------------- prefix -------------------------------- *)

\* no conda-meta/history under Environment.prefix
NoPrefix == [history |-> FALSE, pkgs |-> <<>>, gitignore |-> FALSE, vars |-> EmptyDict]

\* stdout of `conda list -p prefix --explicit`, split in lines: three comment
\* lines, the @EXPLICIT line, then the url of each installed package
conda_list_explicit(pfx) ==
    << << <<"">>, <<" This file may be used to create an environment using:">> >>,
       << <<"">>, <<" $ conda create --name <env> --file <this file>">> >>,
       << <<"">>, <<" platform: ">> >>,
       << <<"@EXPLICIT">> >> >>
    \o [i \in DOMAIN pfx.pkgs |-> <<pfx.pkgs[i]>>]

\* conda create leaving no conda-meta/history behind
conda_create_no_history(rendered) ==
    [history |-> FALSE,
     pkgs |-> [i \in 1..(Len(rendered) - 4) |-> rendered[i + 4][1]],
     gitignore |-> FALSE,
     vars |-> EmptyDict]

\* the packages `conda create --file f` installs: the urls after @EXPLICIT
conda_create(rendered) ==
    [history |-> TRUE,
     pkgs |-> [i \in 1..(Len(rendered) - 4) |-> rendered[i + 4][1]],
     gitignore |-> FALSE,
     vars |-> EmptyDict]

(* ----------------------------- is_prepared ----------------------------- *)

\* is_prepared comparing the two lists as sets
is_prepared_unordered(srcs, lf, pfx) ==
    IF pfx.history
    THEN IF is_locked(srcs, lf)
         THEN LET installed_pkgs == Drop3(conda_list_explicit(pfx))
                  rendered == render_lockfile_for_platform(lf, CurrentPlatform)
                  locked_pkgs == [i \in 1..(Len(rendered) - 3) |-> SplitHash0(rendered[i + 3])]
              IN Range(installed_pkgs) = Range(locked_pkgs)
         ELSE FALSE
    ELSE FALSE

\* Environment.is_prepared
is_prepared(srcs, lf, pfx) ==
    IF pfx.history
    THEN IF is_locked(srcs, lf)
         THEN LET installed_pkgs == Drop3(conda_list_explicit(pfx))
                  rendered == render_lockfile_for_platform(lf, CurrentPlatform)
                  locked_pkgs == [i \in 1..(Len(rendered) - 3) |-> SplitHash0(rendered[i + 3])]
              IN installed_pkgs = locked_pkgs
         ELSE FALSE
    ELSE FALSE

(* -------------------------------- paths -------------------------------- *)

\* CondaProject.environments: lockfile=self.directory / f"{env_name}.conda-lock.yml"
\* (a path is the sequence of its components, a file name that of its parts)
lockfile_path(env_name) == <<"directory", <<env_name, ".conda-lock.yml">> >>

\* CondaProject.environments: prefix=self.directory / "envs" / env_name
prefix_path(env_name) == <<"directory", <<"envs">>, <<env_name>> >>

(* -------------------------------- state -------------------------------- *)

VARIABLES
    project_file,   \* the parsed conda-project.yml: environments and commands
    sources,        \* per environment: the contents of its source files, in order
    lockfile,       \* per environment: the file <directory>/<name>.conda-lock.yml
    prefix,         \* per environment: the directory <directory>/envs/<name>
    last,           \* the last call: its arguments, the external calls it made, its outcome
    document,       \* the text of conda-project.yml, as yaml.load reads it
    locker          \* a lock call in progress: its position and its temporary lockfile

vars == <<project_file, sources, lockfile, prefix, last, document, locker>>

\* an empty conda-project.yml: yaml.load returns None
EmptyDocument ==
    [empty |-> TRUE, order |-> <<>>, name |-> "", environments |-> <<>>,
     variables |-> <<>>, commands |-> <<>>]

\* no lock call is in progress
NoLocker ==
    [pc |-> "idle", env |-> "", force |-> FALSE, tmp |-> NoLockfile, old |-> NoLockfile]

\* the environments of the project directory
EnvNames == {"default", "dev"}

\* outcomes of the external lock generator (make_lock_files):
\*   ok               the lockfile is written to the temporary location
\*   solve_failed     SubprocessError whose output is conda's JSON error report
\*   other_exception  an exception the handler does not turn into the domain
\*                    error: one that is not a SubprocessError, or a
\*                    SubprocessError whose output json.loads cannot read
GeneratorOutcomes == {"ok", "solve_failed", "other_exception"}

\* outcomes of `conda create`: done, or a non-zero exit that left the prefix
\* as it was, or a non-zero exit after --force had removed the old prefix
CreateOutcomes == {"ok", "failed", "failed_removed"}

\* outcomes of the other conda calls: exit code zero or not
CallOutcomes == {"ok", "failed"}

\* the record of a call: the operation, its arguments, the external calls and
\* file writes it made in order, how it ended ("ok" or the exception raised),
\* and for check the per-environment statuses and the value returned
Call(op, env, force, events, result) ==
    [op |-> op, env |-> env, force |-> force, events |-> events, result |-> result,
     status |-> <<>>, value |-> FALSE, repeated |-> FALSE]

(* --------------------------------- lock -------------------------------- *)

\* the early return of lock without the test of force
LockSkips_ignores_force(srcs, lf, force) == is_locked(srcs, lf)

\* Environment.lock: the early return `if self.is_locked and not force`
LockSkips(srcs, lf, force) == is_locked(srcs, lf) /\ ~force

\* lock with the generator writing straight to self.lockfile: a failed run
\* leaves no usable lockfile behind
LockGenerate_in_place(srcs, lf, gen) ==
    LET co == channel_overrides(srcs)
        po == platform_overrides(srcs)
    IN CASE gen = "ok" ->
              [lockfile |-> make_lock_files(srcs, po, co),
               events |-> <<"make_lock_files", "copy">>, result |-> "ok"]
         [] gen = "solve_failed" ->
              [lockfile |-> NoLockfile,
               events |-> <<"make_lock_files">>, result |-> "CondaProjectError"]
         [] OTHER ->
              [lockfile |-> NoLockfile,
               events |-> <<"make_lock_files">>, result |-> "Exception"]

\* lock calling the generator without channel_overrides
LockGenerate_no_channel_overrides(srcs, lf, gen) ==
    LET po == platform_overrides(srcs)
    IN CASE gen = "ok" ->
              [lockfile |-> make_lock_files(srcs, po, None),
               events |-> <<"make_lock_files", "copy">>, result |-> "ok"]
         [] gen = "solve_failed" ->
              [lockfile |-> lf,
               events |-> <<"make_lock_files">>, result |-> "CondaProjectError"]
         [] OTHER ->
              [lockfile |-> lf,
               events |-> <<"make_lock_files">>, result |-> "Exception"]

\* Environment.lock: try / except SubprocessError / finally around the generator
\* and the copy of the temporary lockfile onto self.lockfile
LockGenerate(srcs, lf, gen) ==
    LET co == channel_overrides(srcs)
        po == platform_overrides(srcs)
    IN CASE gen = "ok" ->
              [lockfile |-> make_lock_files(srcs, po, co),
               events |-> <<"make_lock_files", "copy">>, result |-> "ok"]
         [] gen = "solve_failed" ->
              [lockfile |-> lf,
               events |-> <<"make_lock_files">>, result |-> "CondaProjectError"]
         [] OTHER ->
              [lockfile |-> lf,
               events |-> <<"make_lock_files">>, result |-> "Exception"]

\* Environment.lock(force)
LockCall(srcs, lf, force, gen) ==
    IF LockSkips(srcs, lf, force)
    THEN [lockfile |-> lf, events |-> <<>>, result |-> "ok"]
    ELSE LockGenerate(srcs, lf, gen)

(* ------------------------------- prepare ------------------------------- *)

\* the loop `variables.update(env.variables)` over the sources
RECURSIVE merged_variables(_)
merged_variables(srcs) ==
    IF srcs = <<>> THEN EmptyDict
    ELSE LET n == Len(srcs)
         IN DictUpdate(merged_variables(SubSeq(srcs, 1, n - 1)), srcs[n].variables)

\* prepare without its first statement
PrepareLock_missing(srcs, lf, gen) ==
    [lockfile |-> lf, events |-> <<>>, result |-> "ok"]

\* Environment.prepare: the first statement, `if not self.is_locked: self.lock()`
PrepareLock(srcs, lf, gen) ==
    IF ~is_locked(srcs, lf)
    THEN LockCall(srcs, lf, FALSE, gen)
    ELSE [lockfile |-> lf, events |-> <<>>, result |-> "ok"]

\* prepare rebuilding an environment that is prepared, forced or not
PrepareReturnsExisting_rebuilds(srcs, lf, pfx, force) ==
    IF is_prepared(srcs, lf, pfx)
    THEN FALSE
    ELSE pfx.history /\ ~is_prepared(srcs, lf, pfx) /\ ~force

\* prepare without the elif branch: an inconsistent prefix is rebuilt unasked
PrepareReturnsExisting_no_elif(srcs, lf, pfx, force) ==
    IF is_prepared(srcs, lf, pfx)
    THEN ~force
    ELSE FALSE

\* Environment.prepare: the two early returns of the existing prefix
PrepareReturnsExisting(srcs, lf, pfx, force) ==
    IF is_prepared(srcs, lf, pfx)
    THEN ~force
    ELSE pfx.history /\ ~is_prepared(srcs, lf, pfx) /\ ~force

\* prepare without the platform check
PlatformSupported_unchecked(lf) == TRUE

\* Environment.prepare: the check that the current platform is locked
PlatformSupported(lf) == CurrentPlatform \in lf.platforms

\* prepare without the test `if variables:` before the variable-set call
PrepareCreate_always_sets_vars(srcs, lf, pfx, force, cr, vs) ==
    IF ~PlatformSupported(lf)
    THEN [prefix |-> pfx, events |-> <<>>, result |-> "CondaProjectError"]
    ELSE LET rendered == render_lockfile_for_platform(lf, CurrentPlatform)
             created == [conda_create(rendered) EXCEPT !.gitignore = TRUE]
             variables == merged_variables(srcs)
         IN CASE cr = "failed" ->
                   [prefix |-> pfx, events |-> <<"create", "create_failed">>,
                    result |-> "CondaProjectError"]
              [] cr = "failed_removed" ->
                   [prefix |-> IF force THEN NoPrefix ELSE pfx,
                    events |-> <<"create", "create_failed">>,
                    result |-> "CondaProjectError"]
              [] OTHER ->
                   IF variables # EmptyDict
                   THEN IF vs = "ok"
                        THEN [prefix |-> [created EXCEPT !.vars = variables],
                              events |-> <<"create", "gitignore", "vars_set">>,
                              result |-> "ok"]
                        ELSE [prefix |-> created,
                              events |-> <<"create", "gitignore", "vars_set">>,
                              result |-> "CondaProjectError"]
                   ELSE [prefix |-> created,
                         events |-> <<"create", "gitignore", "vars_set">>, result |-> "ok"]

\* Environment.prepare: from parse_conda_lock_file to the end
PrepareCreate(srcs, lf, pfx, force, cr, vs) ==
    IF ~PlatformSupported(lf)
    THEN [prefix |-> pfx, events |-> <<>>, result |-> "CondaProjectError"]
    ELSE LET rendered == render_lockfile_for_platform(lf, CurrentPlatform)
             created == [conda_create(rendered) EXCEPT !.gitignore = TRUE]
             variables == merged_variables(srcs)
         IN CASE cr = "failed" ->
                   [prefix |-> pfx, events |-> <<"create", "create_failed">>,
                    result |-> "CondaProjectError"]
              [] cr = "failed_removed" ->
                   [prefix |-> IF force THEN NoPrefix ELSE pfx,
                    events |-> <<"create", "create_failed">>,
                    result |-> "CondaProjectError"]
              [] OTHER ->
                   IF variables # EmptyDict
                   THEN IF vs = "ok"
                        THEN [prefix |-> [created EXCEPT !.vars = variables],
                              events |-> <<"create", "gitignore", "vars_set">>,
                              result |-> "ok"]
                        ELSE [prefix |-> created,
                              events |-> <<"create", "gitignore", "vars_set">>,
                              result |-> "CondaProjectError"]
                   ELSE [prefix |-> created,
                         events |-> <<"create", "gitignore">>, result |-> "ok"]

(* -------------------------------- check -------------------------------- *)

\* check looking only at the existence of the lockfile
check_status_exists_only(srcs, lf) ==
    IF ~lf.exists THEN FALSE ELSE TRUE

\* CondaProject.check: the status appended for one environment
check_status(srcs, lf) ==
    IF ~lf.exists THEN FALSE
    ELSE IF ~is_locked(srcs, lf) THEN FALSE
    ELSE TRUE

\* CondaProject.check: return_status after the loop over self.environments
return_status(envs) ==
    [i \in DOMAIN envs |-> check_status(sources[envs[i]], lockfile[envs[i]])]

(* ------------------------- environments, commands ---------------------- *)

\* BaseEnvironments.__getitem__: getattr on the model of declared environments
environments_getitem(envs, key) ==
    IF key \in Range(envs)
    THEN [ok |-> TRUE, env |-> key, error |-> ""]
    ELSE [ok |-> FALSE, env |-> "", error |-> "AttributeError"]

\* CondaProject.default_environment: next(iter(environments))
default_environment(envs) ==
    IF envs = <<>>
    THEN [ok |-> FALSE, env |-> "", error |-> "StopIteration"]
    ELSE environments_getitem(envs, envs[1])

\* CondaProject.commands: the environment chosen for one command
command_environment(envs, cmd) ==
    IF cmd.kind = "str"
    THEN default_environment(envs)
    ELSE IF cmd.environment.some
         THEN environments_getitem(envs, cmd.environment.val)
         ELSE default_environment(envs)

\* CondaProject.commands: the loop over the declared commands; the first
\* failing lookup ends the whole property with its exception
RECURSIVE commands(_, _)
commands(envs, cmds) ==
    IF cmds = <<>> THEN [result |-> "ok", value |-> <<>>]
    ELSE LET n == Len(cmds)
             before == commands(envs, SubSeq(cmds, 1, n - 1))
             r == command_environment(envs, cmds[n])
         IN IF before.result # "ok" THEN before
            ELSE IF ~r.ok THEN [result |-> r.error, value |-> <<>>]
            ELSE [result |-> "ok", value |-> Append(before.value, r.env)]

(* ------------------------------- actions ------------------------------- *)

\* env.lock(force); the generator has an outcome only when it is invoked
Lock(e, force) ==
    \E gen \in IF LockSkips(sources[e], lockfile[e], force)
               THEN {"ok"} ELSE GeneratorOutcomes :
        LET r == LockCall(sources[e], lockfile[e], force, gen)
        IN /\ lockfile' = [lockfile EXCEPT ![e] = r.lockfile]
           /\ last' = Call("lock", e, force, r.events, r.result)
           /\ UNCHANGED <<project_file, sources, prefix, document, locker>>

\* the call recorded in c is a prepare call of e that created the environment
\* and returned
CreatedBy(c, e) ==
    /\ c.op = "prepare"
    /\ c.env = e
    /\ c.result = "ok"
    /\ \E i \in DOMAIN c.events : c.events[i] = "create"

\* how a prepare call ends: the files it leaves and the record of the call,
\* with the note whether it directly follows a call that created the environment
PrepareEnds(e, force, lf, pfx, events, result) ==
    /\ lockfile' = [lockfile EXCEPT ![e] = lf]
    /\ prefix' = [prefix EXCEPT ![e] = pfx]
    /\ last' = [Call("prepare", e, force, events, result) EXCEPT
                    !.repeated = CreatedBy(last, e)]
    /\ UNCHANGED <<project_file, sources, document, locker>>

\* env.prepare(force); the generator, `conda create` and `conda env config
\* vars set` have an outcome only when the call reaches them
Prepare(e, force) ==
    \E gen \in IF is_locked(sources[e], lockfile[e])
               THEN {"ok"} ELSE GeneratorOutcomes :
        LET lk == PrepareLock(sources[e], lockfile[e], gen)
        IN IF lk.result # "ok"
           THEN PrepareEnds(e, force, lk.lockfile, prefix[e], lk.events, lk.result)
           ELSE IF PrepareReturnsExisting(sources[e], lk.lockfile, prefix[e], force)
           THEN PrepareEnds(e, force, lk.lockfile, prefix[e], lk.events, "ok")
           ELSE \E cr \in IF PlatformSupported(lk.lockfile) THEN CreateOutcomes ELSE {"ok"} :
                \E vs \in IF cr = "ok" /\ merged_variables(sources[e]) # EmptyDict
                          THEN CallOutcomes ELSE {"ok"} :
                    LET c == PrepareCreate(sources[e], lk.lockfile, prefix[e], force, cr, vs)
                    IN PrepareEnds(e, force, lk.lockfile, c.prefix,
                                   lk.events \o c.events, c.result)

\* clean removing the whole envs directory
Clean_removes_envs(e) ==
    \E rm \in CallOutcomes :
        /\ prefix' = [f \in EnvNames |-> IF rm = "ok" THEN NoPrefix ELSE prefix[f]]
        /\ last' = Call("clean", e, FALSE, <<"env_remove">>,
                        IF rm = "ok" THEN "ok" ELSE "CondaProjectError")
        /\ UNCHANGED <<project_file, sources, lockfile, document, locker>>

\* env.clean(): `conda env remove -p prefix`
Clean(e) ==
    \E rm \in CallOutcomes :
        /\ prefix' = [prefix EXCEPT ![e] = IF rm = "ok" THEN NoPrefix ELSE @]
        /\ last' = Call("clean", e, FALSE, <<"env_remove">>,
                        IF rm = "ok" THEN "ok" ELSE "CondaProjectError")
        /\ UNCHANGED <<project_file, sources, lockfile, document, locker>>

\* project.check()
Check ==
    LET st == return_status(project_file.environments)
    IN /\ last' = [Call("check", "", FALSE, <<>>, "ok") EXCEPT
                      !.status = st, !.value = \A i \in DOMAIN st : st[i]]
       /\ UNCHANGED <<project_file, sources, lockfile, prefix, document, locker>>

\* the declared platforms a source file is edited to
PlatformChoices == {None, Some({"linux-64"})}

\* the environments the user changes by hand between calls
Edited == {"default"}

\* the user edits a source file: another dependency list, other platforms
EditSource(e) ==
    /\ e \in Edited
    /\ \E i \in DOMAIN sources[e], d \in 1..MaxDeps, pl \in PlatformChoices :
          /\ \/ d # sources[e][i].dependencies /\ pl = sources[e][i].platforms
             \/ d = sources[e][i].dependencies /\ pl # sources[e][i].platforms
          /\ sources' = [sources EXCEPT ![e][i].dependencies = d, ![e][i].platforms = pl]
    /\ last' = Call("edit", e, FALSE, <<>>, "ok")
    /\ UNCHANGED <<project_file, lockfile, prefix, document, locker>>

\* s reversed
Reverse(s) == [i \in DOMAIN s |-> s[Len(s) + 1 - i]]

\* the user changes the installed environment behind the tool's back: the
\* same packages come to be listed in another order
ReorderInstalled(e) ==
    /\ e \in Edited
    /\ prefix[e].history
    /\ Reverse(prefix[e].pkgs) # prefix[e].pkgs
    /\ prefix' = [prefix EXCEPT ![e].pkgs = Reverse(@)]
    /\ last' = Call("reorder", e, FALSE, <<>>, "ok")
    /\ UNCHANGED <<project_file, sources, lockfile, document, locker>>

\* the user deletes the lockfile
RemoveLockfile(e) ==
    /\ lockfile[e].exists
    /\ lockfile' = [lockfile EXCEPT ![e] = NoLockfile]
    /\ last' = Call("rm_lockfile", e, FALSE, <<>>, "ok")
    /\ UNCHANGED <<project_file, sources, prefix, document, locker>>

(* ---------------------------- specification ---------------------------- *)

Init ==
    /\ project_file = [environments |-> <<"default", "dev">>, commands |-> <<>>]
    /\ sources = [e \in EnvNames |->
                    IF e = "default"
                    THEN <<EnvironmentYaml(None, None, 1, EmptyDict)>>
                    ELSE <<EnvironmentYaml(Some(<<"conda-forge">>), Some({"linux-64", CurrentPlatform}), 1, EmptyDict),
                           EnvironmentYaml(Some(<<"defaults", "conda-forge">>), None, 1, OneVar)>>]
    /\ lockfile = [e \in EnvNames |-> NoLockfile]
    /\ prefix = [e \in EnvNames |-> NoPrefix]
    /\ last = Call("init", "", FALSE, <<>>, "ok")
    /\ document = EmptyDocument
    /\ locker = NoLocker

Next ==
    \/ \E e \in EnvNames, force \in BOOLEAN : Lock(e, force)
    \/ \E e \in EnvNames, force \in BOOLEAN : Prepare(e, force)
    \/ \E e \in EnvNames : Clean(e)
    \/ Check
    \/ \E e \in EnvNames : EditSource(e)
    \/ \E e \in EnvNames : ReorderInstalled(e)
    \/ \E e \in EnvNames : RemoveLockfile(e)

Spec == Init /\ [][Next]_vars

(* ------------------- specification of the project facade --------------- *)

\* names an environment or a command can refer to
EnvUniverse == {"default", "dev", "test"}

\* sequences over S of length at most n
SeqUpTo(S, n) == UNION {[1..k -> S] : k \in 0..n}

\* project_file.py CondaProjectYaml.commands: a plain command string, or a
\* Command map with cmd and an optional environment
CommandChoices ==
    {[kind |-> "str", environment |-> None], [kind |-> "map", environment |-> None]}
    \cup {[kind |-> "map", environment |-> Some(n)] : n \in EnvUniverse}

\* project_file.py CondaProjectYaml: the descriptors the schema accepts; the
\* keys of the environments mapping are distinct names
ProjectFiles ==
    {[environments |-> envs, commands |-> cmds] :
        envs \in {s \in SeqUpTo(EnvUniverse, MaxEnvs) :
                    \A i, j \in DOMAIN s : i # j => s[i] # s[j]},
        cmds \in SeqUpTo(CommandChoices, MaxCommands)}

\* project.commands
LoadCommands ==
    LET r == commands(project_file.environments, project_file.commands)
    IN /\ last' = [Call("commands", "", FALSE, <<>>, r.result) EXCEPT !.value = r.value]
       /\ UNCHANGED <<project_file, sources, lockfile, prefix, document, locker>>

\* project.default_environment
DefaultEnvironment ==
    LET r == default_environment(project_file.environments)
    IN /\ last' = [Call("default_environment", "", FALSE, <<>>,
                        IF r.ok THEN "ok" ELSE r.error) EXCEPT !.value = r.env]
       /\ UNCHANGED <<project_file, sources, lockfile, prefix, document, locker>>

InitProject ==
    /\ project_file \in ProjectFiles
    /\ sources = [e \in EnvNames |-> <<EnvironmentYaml(None, None, 1, EmptyDict)>>]
    /\ lockfile = [e \in EnvNames |-> NoLockfile]
    /\ prefix = [e \in EnvNames |-> NoPrefix]
    /\ last = Call("init", "", FALSE, <<>>, "ok")
    /\ document = EmptyDocument
    /\ locker = NoLocker

NextProject ==
    \/ LoadCommands
    \/ DefaultEnvironment

SpecProject == InitProject /\ [][NextProject]_vars

(* ----------------------- descriptor file: parse, dump ------------------ *)

\* project_file.py CondaProjectYaml: the fields of the schema, in order, and
\* those without a default
ProjectFields == <<"name", "environments", "variables", "commands">>
RequiredFields == {"name", "environments"}

\* before CondaProjectYaml.parse_yaml has returned a descriptor
NoProject ==
    [name |-> "", environments |-> <<>>, files |-> <<>>, variables |-> <<>>,
     commands |-> <<>>]

\* pydantic's List[Path]: Path(p) drops the "." components of p (a path is the
\* sequence of its components)
RECURSIVE PurePath(_)
PurePath(parts) ==
    IF parts = <<>> THEN <<>>
    ELSE IF Head(parts) = "." THEN PurePath(Tail(parts))
    ELSE <<Head(parts)>> \o PurePath(Tail(parts))

\* pydantic's ValidationError for cls(**d): a required field that is missing,
\* a key the schema does not define (Config.extra = "forbid")
validation_errors(doc) ==
    {[loc |-> k, msg |-> "field required"] : k \in RequiredFields \ Range(doc.order)}
    \cup {[loc |-> k, msg |-> "extra fields not permitted"] :
            k \in Range(doc.order) \ Range(ProjectFields)}

\* the descriptor cls(**d) builds: absent fields take their default, paths go
\* through Path, a Command map without environment key gets environment None
descriptor(doc) ==
    [name |-> doc.name,
     environments |-> [i \in DOMAIN doc.environments |-> doc.environments[i].name],
     files |-> [i \in DOMAIN doc.environments |->
                  [j \in DOMAIN doc.environments[i].files |->
                      PurePath(doc.environments[i].files[j])]],
     variables |-> doc.variables,
     commands |-> [i \in DOMAIN doc.commands |->
                     [name |-> doc.commands[i].name,
                      kind |-> doc.commands[i].kind,
                      environment |-> IF "environment" \in Range(doc.commands[i].keys)
                                      THEN doc.commands[i].environment ELSE None]]]

\* the message of the domain error parse_yaml raises: the schema it names,
\* whether it says the file appears to be empty, the validation detail
Message(schema, empty, errors) == [schema |-> schema, empty |-> empty, errors |-> errors]

\* parse_yaml without the test `if d is None`: cls(**None) is a TypeError
parse_yaml_no_empty_check(doc) ==
    IF doc.empty
    THEN [result |-> "TypeError", message |-> Message("", FALSE, {}), value |-> NoProject]
    ELSE IF validation_errors(doc) # {}
    THEN [result |-> "CondaProjectError",
          message |-> Message("CondaProjectYaml", FALSE, validation_errors(doc)),
          value |-> NoProject]
    ELSE [result |-> "ok", message |-> Message("", FALSE, {}), value |-> descriptor(doc)]

\* BaseYaml.parse_yaml, for cls = CondaProjectYaml
parse_yaml(doc) ==
    IF doc.empty
    THEN [result |-> "CondaProjectError",
          message |-> Message("CondaProjectYaml", TRUE, {}),
          value |-> NoProject]
    ELSE IF validation_errors(doc) # {}
    THEN [result |-> "CondaProjectError",
          message |-> Message("CondaProjectYaml", FALSE, validation_errors(doc)),
          value |-> NoProject]
    ELSE [result |-> "ok", message |-> Message("", FALSE, {}), value |-> descriptor(doc)]

\* the text of one command: a plain string stays a string, a Command map is
\* written with both of its keys
yaml_command(c) ==
    [name |-> c.name, kind |-> c.kind,
     keys |-> IF c.kind = "map" THEN <<"cmd", "environment">> ELSE <<>>,
     environment |-> c.environment]

\* yaml leaving out the fields that are empty
yaml_drop_empty(desc) ==
    [empty |-> FALSE,
     order |-> SelectSeq(ProjectFields,
                         LAMBDA k : /\ k = "variables" => desc.variables # <<>>
                                    /\ k = "commands" => desc.commands # <<>>),
     name |-> desc.name,
     environments |-> [i \in DOMAIN desc.environments |->
                         [name |-> desc.environments[i], files |-> desc.files[i]]],
     variables |-> desc.variables,
     commands |-> [i \in DOMAIN desc.commands |-> yaml_command(desc.commands[i])]]

\* BaseYaml.yaml: json.loads(self.json()) dumped by ruamel: every field of the
\* schema in field order, mappings and lists in their own order
yaml(desc) ==
    [empty |-> FALSE,
     order |-> ProjectFields,
     name |-> desc.name,
     environments |-> [i \in DOMAIN desc.environments |->
                         [name |-> desc.environments[i], files |-> desc.files[i]]],
     variables |-> desc.variables,
     commands |-> [i \in DOMAIN desc.commands |-> yaml_command(desc.commands[i])]]

(* -------------------- specification of the descriptor file ------------- *)

\* the orders in which a text lists its top-level keys
KeyOrders ==
    {SelectSeq(<<"name", "environments", "variables", "commands", "channels">>,
               LAMBDA k : k \in K) :
        K \in SUBSET {"name", "environments", "variables", "commands", "channels"}}
    \cup {<<"environments", "name">>, <<"commands", "environments", "name">>}

\* the environments mappings of the texts
EnvironmentsTexts ==
    {<<>>,
     <<[name |-> "default", files |-> << <<".", "environment.yml">> >>]>>,
     <<[name |-> "default", files |-> << <<".", "environment.yml">>, <<"..", "dev.yaml">> >>],
       [name |-> "another", files |-> << <<"another-env.yml">> >>]>>}

\* the variables mappings of the texts
VariablesTexts ==
    {<<>>,
     <<[key |-> "empty", value |-> None]>>,
     <<[key |-> "WITH_DEFAULT", value |-> Some("value")], [key |-> "NO_DEFAULT", value |-> None]>>}

\* the texts of one command: a plain string, a map with cmd alone, a map with
\* cmd and environment (null or a name)
CommandTexts ==
    {[kind |-> "str", keys |-> <<>>, environment |-> None],
     [kind |-> "map", keys |-> <<"cmd">>, environment |-> None],
     [kind |-> "map", keys |-> <<"cmd", "environment">>, environment |-> None],
     [kind |-> "map", keys |-> <<"cmd", "environment">>, environment |-> Some("default")],
     [kind |-> "map", keys |-> <<"cmd", "environment">>, environment |-> Some("test")]}

\* the names of the commands of a text, by position
CommandNames == [i \in 1..(MaxCommands + 1) |-> i]

\* the commands mappings of the texts
CommandsTexts ==
    {[i \in DOMAIN cs |->
        [name |-> CommandNames[i], kind |-> cs[i].kind, keys |-> cs[i].keys,
         environment |-> cs[i].environment]] : cs \in SeqUpTo(CommandTexts, MaxCommands)}

\* the texts of conda-project.yml: the empty file, and the mappings
Documents ==
    {EmptyDocument}
    \cup {[empty |-> FALSE, order |-> o,
           name |-> IF "name" \in Range(o) THEN "my-project" ELSE "",
           environments |-> IF "environments" \in Range(o) THEN ev ELSE <<>>,
           variables |-> IF "variables" \in Range(o) THEN vr ELSE <<>>,
           commands |-> IF "commands" \in Range(o) THEN cm ELSE <<>>] :
            o \in KeyOrders, ev \in EnvironmentsTexts, vr \in VariablesTexts,
            cm \in CommandsTexts}

\* CondaProjectYaml.parse_yaml(conda-project.yml)
ParseYaml ==
    LET r == parse_yaml(document)
    IN /\ project_file' = IF r.result = "ok" THEN r.value ELSE project_file
       /\ last' = [Call("parse_yaml", "", FALSE, <<>>, r.result) EXCEPT !.value = r.message]
       /\ UNCHANGED <<sources, lockfile, prefix, document, locker>>

\* project_file.yaml(conda-project.yml), once a descriptor is loaded
Yaml ==
    /\ project_file # NoProject
    /\ document' = yaml(project_file)
    /\ last' = Call("yaml", "", FALSE, <<>>, "ok")
    /\ UNCHANGED <<project_file, sources, lockfile, prefix, locker>>

InitFile ==
    /\ document \in Documents
    /\ project_file = NoProject
    /\ sources = [e \in EnvNames |-> <<EnvironmentYaml(None, None, 1, EmptyDict)>>]
    /\ lockfile = [e \in EnvNames |-> NoLockfile]
    /\ prefix = [e \in EnvNames |-> NoPrefix]
    /\ last = Call("init", "", FALSE, <<>>, "ok")
    /\ locker = NoLocker

NextFile ==
    \/ ParseYaml
    \/ Yaml

SpecFile == InitFile /\ [][NextFile]_vars

(* ------------- lock step by step, with a concurrent reader ------------- *)

\* self.lockfile right after shutil.copy has opened it for writing
Truncated == [exists |-> TRUE, platforms |-> {}, content_hash |-> <<>>, package |-> <<>>]

\* a lockfile of which the metadata is written and the package list is not
MetadataOnly(lf) ==
    [exists |-> TRUE, platforms |-> lf.platforms, content_hash |-> lf.content_hash,
     package |-> [p \in lf.platforms |-> <<>>]]

\* the generator writing to self.lockfile itself
after_make_lock_files_in_place(lf, generated) == [lockfile |-> generated, tmp |-> generated]

\* make_lock_files(lockfile_path=tempdir / self.lockfile.name): the output goes
\* to the temporary file, self.lockfile keeps its content
after_make_lock_files(lf, generated) == [lockfile |-> lf, tmp |-> generated]

\* lock is called: the early return, or the temporary directory is set up
LockStart(e, force) ==
    /\ locker.pc = "idle"
    /\ IF LockSkips(sources[e], lockfile[e], force)
       THEN /\ last' = Call("lock", e, force, <<>>, "ok")
            /\ UNCHANGED locker
       ELSE /\ locker' = [pc |-> "make_lock_files", env |-> e, force |-> force,
                          tmp |-> NoLockfile, old |-> lockfile[e]]
            /\ last' = Call("lock", e, force, <<>>, "running")
    /\ UNCHANGED <<project_file, sources, lockfile, prefix, document>>

\* the generator runs; when it fails lock ends with the error of LockGenerate
LockMakeLockFiles ==
    /\ locker.pc = "make_lock_files"
    /\ \E gen \in GeneratorOutcomes :
          LET e == locker.env
              r == LockGenerate(sources[e], lockfile[e], gen)
              w == after_make_lock_files(lockfile[e], r.lockfile)
          IN IF r.result = "ok"
             THEN /\ locker' = [locker EXCEPT !.pc = "copy", !.tmp = w.tmp]
                  /\ lockfile' = [lockfile EXCEPT ![e] = w.lockfile]
                  /\ last' = Call("lock", e, locker.force, <<"make_lock_files">>, "running")
             ELSE /\ locker' = NoLocker
                  /\ lockfile' = lockfile
                  /\ last' = Call("lock", e, locker.force, r.events, r.result)
    /\ UNCHANGED <<project_file, sources, prefix, document>>

\* shutil.copy opens self.lockfile for writing
CopyOpen ==
    /\ locker.pc = "copy"
    /\ lockfile' = [lockfile EXCEPT ![locker.env] = Truncated]
    /\ locker' = [locker EXCEPT !.pc = "copy_metadata"]
    /\ last' = Call("lock", locker.env, locker.force, <<"make_lock_files", "copy">>, "running")
    /\ UNCHANGED <<project_file, sources, prefix, document>>

\* shutil.copy has written the first part of the file
CopyMetadata ==
    /\ locker.pc = "copy_metadata"
    /\ lockfile' = [lockfile EXCEPT ![locker.env] = MetadataOnly(locker.tmp)]
    /\ locker' = [locker EXCEPT !.pc = "copy_package"]
    /\ last' = Call("lock", locker.env, locker.force, <<"make_lock_files", "copy">>, "running")
    /\ UNCHANGED <<project_file, sources, prefix, document>>

\* shutil.copy has written the rest of the file
CopyPackage ==
    /\ locker.pc = "copy_package"
    /\ lockfile' = [lockfile EXCEPT ![locker.env] = locker.tmp]
    /\ locker' = [locker EXCEPT !.pc = "rmtree"]
    /\ last' = Call("lock", locker.env, locker.force, <<"make_lock_files", "copy">>, "running")
    /\ UNCHANGED <<project_file, sources, prefix, document>>

\* the temporary directory is removed and lock returns
LockReturn ==
    /\ locker.pc = "rmtree"
    /\ locker' = NoLocker
    /\ last' = Call("lock", locker.env, locker.force, <<"make_lock_files", "copy">>, "ok")
    /\ UNCHANGED <<project_file, sources, lockfile, prefix, document>>

\* another process reads the lockfile of e (is_locked, is_prepared, prepare
\* all go through parse_conda_lock_file(self.lockfile))
Read(e) ==
    /\ last' = [Call("read", e, FALSE, <<>>, "ok") EXCEPT !.value = lockfile[e]]
    /\ UNCHANGED <<project_file, sources, lockfile, prefix, document, locker>>

NextConcurrent ==
    \/ \E e \in EnvNames, force \in BOOLEAN : LockStart(e, force)
    \/ LockMakeLockFiles
    \/ CopyOpen
    \/ CopyMetadata
    \/ CopyPackage
    \/ LockReturn
    \/ \E e \in EnvNames : Read(e)
    \/ \E e \in EnvNames : EditSource(e)

SpecConcurrent == Init /\ [][NextConcurrent]_vars

(* =============================== claims ================================ *)

\* x is among the external calls and writes of a call
Has(events, x) == \E i \in DOMAIN events : events[i] = x

\* the platforms an environment asks for: those its sources declare, or the
\* default platform set when none is declared
Requested(e) ==
    LET declared == UNION {sources[e][i].platforms.val :
                             i \in {j \in DOMAIN sources[e] : sources[e][j].platforms.some}}
    IN IF declared = {} THEN DEFAULT_PLATFORMS ELSE declared

\* the content hash of the current sources of e for platform p
FreshHash(e, p) ==
    content_hash_for_platform(sources[e], channel_overrides(sources[e]), p)

\* is_locked / is_prepared of environment e in the current state
Locked(e) == is_locked(sources[e], lockfile[e])
Prepared(e) == is_prepared(sources[e], lockfile[e], prefix[e])

\* the urls the lockfile of e records for the current platform, in order
LockedUrls(e) ==
    IF CurrentPlatform \in lockfile[e].platforms
    THEN [i \in DOMAIN lockfile[e].package[CurrentPlatform] |->
            lockfile[e].package[CurrentPlatform][i].url]
    ELSE <<>>

\* the step is a call of op on environment e
Called(op, e) == last'.op = op /\ last'.env = e

\* C1: is_locked is false without a lockfile; with one it is true exactly
\* when every requested platform is recorded in the lockfile with a stored
\* hash equal to the freshly computed one.
C1_IsLocked ==
    \A e \in EnvNames :
        /\ ~lockfile[e].exists => ~Locked(e)
        /\ lockfile[e].exists =>
             (Locked(e) <=> \A p \in Requested(e) :
                                /\ p \in lockfile[e].platforms
                                /\ FreshHash(e, p) = lockfile[e].content_hash[p])

\* C1 witness: one environment is locked while the other has a lockfile whose
\* hashes all match but which lacks a requested platform
C1_Witness ==
    /\ Locked("dev")
    /\ lockfile["default"].exists
    /\ ~Locked("default")
    /\ \E p \in Requested("default") : p \notin lockfile["default"].platforms
    /\ \A p \in Requested("default") \cap lockfile["default"].platforms :
          FreshHash("default", p) = lockfile["default"].content_hash[p]

\* C2: is_prepared is true exactly when the installation marker exists,
\* is_locked is true and the installed packages equal, in order, the urls
\* locked for the current platform; so it is false whenever is_locked is
\* false, and false for the same packages in another order.
C2_IsPrepared ==
    \A e \in EnvNames :
        /\ Prepared(e) <=> (prefix[e].history /\ Locked(e) /\ prefix[e].pkgs = LockedUrls(e))
        /\ ~Locked(e) => ~Prepared(e)
        /\ (Range(prefix[e].pkgs) = Range(LockedUrls(e)) /\ prefix[e].pkgs # LockedUrls(e))
              => ~Prepared(e)

\* C2 witness: a locked environment whose prefix lists the locked packages
\* in another order
C2_Witness ==
    \E e \in EnvNames :
        /\ prefix[e].history
        /\ Locked(e)
        /\ Range(prefix[e].pkgs) = Range(LockedUrls(e))
        /\ prefix[e].pkgs # LockedUrls(e)
        /\ ~Prepared(e)

\* C3: in a prepare call on an environment that is not locked, the lock step
\* runs first; create is invoked only after the lock step has completed, and
\* not at all when the lock step fails.
C3_LockBeforeCreate ==
    [][\A e \in EnvNames :
         (Called("prepare", e) /\ ~Locked(e)) =>
            /\ last'.events # <<>>
            /\ last'.events[1] = "make_lock_files"
            /\ \A i \in DOMAIN last'.events :
                  last'.events[i] = "create" =>
                     /\ i > 2
                     /\ last'.events[2] = "copy"
            /\ ~Has(last'.events, "copy") => ~Has(last'.events, "create")]_vars

\* C3 witness: a prepare call that locked, then created
C3_Witness ==
    /\ last.op = "prepare"
    /\ Len(last.events) >= 3
    /\ last.events[1] = "make_lock_files"
    /\ last.events[2] = "copy"
    /\ last.events[3] = "create"

\* C4: lock(force=False) on a locked environment invokes no generator and
\* leaves the lockfile as it is; lock(force=True) invokes the generator even
\* on a locked environment.
C4_LockNoOp ==
    [][\A e \in EnvNames :
         /\ (Called("lock", e) /\ ~last'.force /\ Locked(e)) =>
               /\ last'.events = <<>>
               /\ last'.result = "ok"
               /\ lockfile' = lockfile
         /\ (Called("lock", e) /\ last'.force) =>
               /\ last'.events # <<>>
               /\ last'.events[1] = "make_lock_files"]_vars

\* C4 witness: an unforced lock call that did nothing on a locked environment
C4_Witness ==
    /\ last.op = "lock"
    /\ ~last.force
    /\ last.events = <<>>
    /\ lockfile[last.env].exists
    /\ Locked(last.env)

\* C5: the real lockfile is replaced only after the generator succeeded; a
\* lock call in which the generator fails leaves the lockfile as it was.
C5_LockFailureKeepsLockfile ==
    [][\A e \in EnvNames :
         Called("lock", e) =>
            /\ last'.result # "ok" => (lockfile' = lockfile /\ ~Has(last'.events, "copy"))
            /\ ~Has(last'.events, "copy") => lockfile' = lockfile
            /\ \A i \in DOMAIN last'.events :
                  last'.events[i] = "copy" => (i > 1 /\ last'.events[i - 1] = "make_lock_files")]_vars

\* C5 witness: a failed lock call on an environment whose stale lockfile is
\* still there
C5_Witness ==
    /\ last.op = "lock"
    /\ last.result # "ok"
    /\ Has(last.events, "make_lock_files")
    /\ lockfile[last.env].exists
    /\ ~Locked(last.env)

\* C6: prepare(force=False) on a prepared environment returns without any
\* external call or write, leaving lockfile and prefix unchanged.
C6_PrepareNoOp ==
    [][\A e \in EnvNames :
         (Called("prepare", e) /\ ~last'.force /\ Prepared(e)) =>
            /\ last'.events = <<>>
            /\ last'.result = "ok"
            /\ lockfile' = lockfile
            /\ prefix' = prefix]_vars

\* C6 witness: an unforced prepare call that did nothing on a prepared
\* environment
C6_Witness ==
    /\ last.op = "prepare"
    /\ ~last.force
    /\ last.events = <<>>
    /\ last.result = "ok"
    /\ Prepared(last.env)

\* C7 as stated: prepare(force=False) on an environment whose prefix has the
\* marker but which is not prepared, its lockfile stale or missing included,
\* returns the prefix without create and without modifying prefix or lockfile.
C7_Original ==
    [][\A e \in EnvNames :
         (Called("prepare", e) /\ ~last'.force /\ prefix[e].history /\ ~Prepared(e)) =>
            /\ last'.result = "ok"
            /\ ~Has(last'.events, "create")
            /\ prefix' = prefix
            /\ lockfile' = lockfile]_vars

\* C7 amended: prepare(force=False) on an environment whose prefix has the
\* marker but which is not prepared never invokes create and never modifies
\* the prefix; when the environment is locked the call makes no external call,
\* returns the prefix and leaves the lockfile unchanged; when the lockfile is
\* stale or missing the call first runs the lock step, which replaces the
\* lockfile or fails.  A prefix that has the marker is rebuilt only with
\* force=True.
C7_NoRebuildWithoutForce ==
    [][\A e \in EnvNames :
         /\ (Called("prepare", e) /\ ~last'.force /\ prefix[e].history /\ ~Prepared(e)) =>
               /\ ~Has(last'.events, "create")
               /\ prefix' = prefix
               /\ Locked(e) =>
                     /\ last'.events = <<>>
                     /\ last'.result = "ok"
                     /\ lockfile' = lockfile
               /\ ~Locked(e) =>
                     /\ last'.events # <<>>
                     /\ last'.events[1] = "make_lock_files"
                     /\ last'.result = "ok" <=> Has(last'.events, "copy")
                     /\ Has(last'.events, "copy") => lockfile'[e] # lockfile[e]
         /\ (Called("prepare", e) /\ prefix[e].history /\ Has(last'.events, "create")) =>
               last'.force]_vars

\* C7 witness: an unforced prepare call on a stale environment with an
\* installed prefix: the lock step ran, nothing was created
C7_Witness ==
    /\ last.op = "prepare"
    /\ ~last.force
    /\ last.events = <<"make_lock_files", "copy">>
    /\ last.result = "ok"
    /\ prefix[last.env].history
    /\ ~Prepared(last.env)

\* the lock step of the call in this step did not fail
LockStepPassed == Has(last'.events, "make_lock_files") => Has(last'.events, "copy")

\* C8: a prepare call that reaches the creation step (forced, or no prefix
\* yet) with a lockfile that does not lock the current platform fails with
\* CondaProjectError before create is invoked, the prefix unchanged.
C8_UnsupportedPlatform ==
    [][\A e \in EnvNames :
         (/\ Called("prepare", e)
          /\ last'.force \/ ~prefix[e].history
          /\ LockStepPassed
          /\ CurrentPlatform \notin lockfile'[e].platforms) =>
            /\ last'.result = "CondaProjectError"
            /\ ~Has(last'.events, "create")
            /\ prefix' = prefix]_vars

\* C8 witness: a prepare call whose lock step passed and that failed on a
\* lockfile without the current platform
C8_Witness ==
    /\ last.op = "prepare"
    /\ last.result = "CondaProjectError"
    /\ last.events = <<"make_lock_files", "copy">>
    /\ lockfile[last.env].exists
    /\ CurrentPlatform \notin lockfile[last.env].platforms

\* C9: check evaluates every declared environment, returns true exactly when
\* each has a lockfile and is locked, and modifies no lockfile and no prefix.
C9_Check ==
    [][last'.op = "check" =>
         LET envs == project_file.environments
         IN /\ Len(last'.status) = Len(envs)
            /\ \A i \in DOMAIN envs :
                  last'.status[i] = (lockfile[envs[i]].exists /\ Locked(envs[i]))
            /\ last'.value = \A i \in DOMAIN envs :
                                lockfile[envs[i]].exists /\ Locked(envs[i])
            /\ lockfile' = lockfile
            /\ prefix' = prefix
            /\ sources' = sources]_vars

\* C9 witness: check returned false for a stale first environment and still
\* evaluated the locked second one
C9_Witness ==
    /\ last.op = "check"
    /\ last.value = FALSE
    /\ last.status = <<FALSE, TRUE>>
    /\ lockfile[project_file.environments[1]].exists
    /\ ~Locked(project_file.environments[1])

\* C10: every command that declares no environment resolves to the first
\* declared environment, and every command that names a declared environment
\* resolves to the environment of that name.
C10_CommandEnvironment ==
    last.op = "commands" =>
        \A i \in DOMAIN project_file.commands :
            LET cmd == project_file.commands[i]
                envs == project_file.environments
            IN /\ (~cmd.environment.some /\ envs # <<>>) =>
                     /\ last.result = "ok"
                     /\ last.value[i] = envs[1]
               /\ (cmd.environment.some /\ cmd.environment.val \in Range(envs)) =>
                     /\ last.result = "ok"
                     /\ last.value[i] = cmd.environment.val


\* the environment names the commands of a descriptor refer to
ReferencedEnvironments(desc) ==
    {desc.commands[i].environment.val :
        i \in {j \in DOMAIN desc.commands : desc.commands[j].environment.some}}

\* C11: in every descriptor that parse_yaml has loaded, each environment name
\* a command refers to is one of the declared environments; a descriptor with
\* an undeclared reference is rejected at load with the domain error.
C11_ReferencesDeclared ==
    (last.op = "parse_yaml" /\ last.result = "ok")
        => ReferencedEnvironments(project_file) \subseteq Range(project_file.environments)

\* the document is empty, lacks a required key, or has a key the schema does
\* not define
Malformed(doc) ==
    \/ doc.empty
    \/ RequiredFields \ Range(doc.order) # {}
    \/ Range(doc.order) \ Range(ProjectFields) # {}

\* C12: parsing an empty file, a file that lacks a required key or a file with
\* an undefined key ends with CondaProjectError and returns no descriptor; the
\* message names the schema, and for an empty file says it appears to be empty.
C12_ParseRejects ==
    (last.op = "parse_yaml" /\ Malformed(document))
        => /\ last.result = "CondaProjectError"
           /\ project_file = NoProject
           /\ last.value.schema = "CondaProjectYaml"
           /\ document.empty => last.value.empty

\* C12 witness: the three kinds of malformed file have each been rejected
C12_Witness ==
    /\ last.op = "parse_yaml"
    /\ last.result = "CondaProjectError"
    /\ ~document.empty
    /\ "name" \notin Range(document.order)
    /\ "channels" \in Range(document.order)
    /\ last.value.errors = {[loc |-> "name", msg |-> "field required"],
                            [loc |-> "channels", msg |-> "extra fields not permitted"]}

\* the names of the entries of a mapping of a document, in text order
Names(entries) == [i \in DOMAIN entries |-> entries[i].name]

\* C13: the text yaml writes for a parsed descriptor is a fixed point of parse
\* then yaml; it lists the environments, the source files of each environment
\* and the commands in the order of the parsed text; it has the variables and
\* commands keys even when they are empty, and null entries for the optional
\* values that are absent.
C13_RoundTrip ==
    [][(last'.op = "yaml" /\ last.op = "parse_yaml")
        => /\ parse_yaml(document').result = "ok"
           /\ yaml(parse_yaml(document').value) = document'
           /\ document'.order = ProjectFields
           /\ Names(document'.environments) = Names(document.environments)
           /\ \A i \in DOMAIN document.environments :
                 document'.environments[i].files
                    = [j \in DOMAIN document.environments[i].files |->
                          PurePath(document.environments[i].files[j])]
           /\ Names(document'.commands) = Names(document.commands)
           /\ document'.variables = document.variables
           /\ \A i \in DOMAIN document'.commands :
                 document'.commands[i].kind = "map"
                    => document'.commands[i].keys = <<"cmd", "environment">>]_vars

\* C13 witness: a text without variables and commands, with a "./" path, has
\* been parsed and written back
C13_Witness ==
    /\ last.op = "yaml"
    /\ document.order = ProjectFields
    /\ document.variables = <<>>
    /\ document.commands = <<>>
    /\ Len(document.environments) = 2
    /\ document.environments[1].files = << <<"environment.yml">>, <<"..", "dev.yaml">> >>


\* a reader has read the lockfile of the environment that a lock call in
\* progress is working on
ReadDuringLock == last.op = "read" /\ locker.pc # "idle" /\ locker.env = last.env

C15_GeneratorFailure ==
    (last.op = "lock" /\ Has(last.events, "make_lock_files") /\ ~Has(last.events, "copy"))
        => last.result = "CondaProjectError"

\* the creation steps of a call, in the order they happened
CreationSteps(events) ==
    SelectSeq(events, LAMBDA x : x \in {"create", "gitignore", "vars_set"})

\* C16: in a prepare call that reaches the creation step, create, the write of
\* the ignore marker and the variable-set call happen in this order, each at
\* most once; when create fails the call ends with CondaProjectError without
\* marker write and variable-set call; when no source declares variables the
\* variable-set call is not made.
C16_CreationOrder ==
    (last.op = "prepare" /\ Has(last.events, "create"))
        => LET steps == CreationSteps(last.events)
           IN /\ steps = SubSeq(<<"create", "gitignore", "vars_set">>, 1, Len(steps))
              /\ Has(last.events, "create_failed")
                    => /\ last.result = "CondaProjectError"
                       /\ steps = <<"create">>
              /\ ~Has(last.events, "create_failed") => Has(last.events, "gitignore")
              /\ merged_variables(sources[last.env]) = EmptyDict
                    => ~Has(last.events, "vars_set")

\* C16 witness: a prepare call that created the environment, wrote the marker
\* and set the declared variables
C16_Witness ==
    /\ last.op = "prepare"
    /\ last.result = "ok"
    /\ CreationSteps(last.events) = <<"create", "gitignore", "vars_set">>
    /\ prefix[last.env].vars = merged_variables(sources[last.env])
    /\ merged_variables(sources[last.env]) # EmptyDict


\* C17: a prepare(force=False) call that directly follows a prepare call of
\* the same environment which created it and returned, nothing touched in
\* between, invokes neither the generator nor create, and returns the prefix
\* as it is.
C17_PrepareIdempotent ==
    [][\A e \in EnvNames :
         (CreatedBy(last, e) /\ Called("prepare", e) /\ ~last'.force) =>
            /\ ~Has(last'.events, "make_lock_files")
            /\ ~Has(last'.events, "create")
            /\ last'.result = "ok"
            /\ prefix' = prefix
            /\ lockfile' = lockfile]_vars

\* C17 witness: an unforced prepare call has returned right after the call
\* that created the environment
C17_Witness ==
    /\ last.op = "prepare"
    /\ last.repeated
    /\ ~last.force
    /\ last.result = "ok"
    /\ last.events = <<>>
    /\ prefix[last.env].history


\* C18: whenever a prepare call has invoked create, the lockfile exists and
\* is_locked is true for the current sources; a lock call that returned
\* without error leaves is_locked true.
C18_CreateFromFreshLockfile ==
    /\ (last.op = "prepare" /\ Has(last.events, "create"))
          => (lockfile[last.env].exists /\ Locked(last.env))
    /\ (last.op = "lock" /\ last.result = "ok")
          => (lockfile[last.env].exists /\ Locked(last.env))

\* C18 witness: a forced prepare call of an environment with two source files
\* has run the generator, replaced the lockfile and invoked create
C18_Witness ==
    /\ last.op = "prepare"
    /\ last.force
    /\ Len(sources[last.env]) = 2
    /\ Has(last.events, "copy")
    /\ Has(last.events, "create")
    /\ Locked(last.env)


\* the paths of the lockfiles and prefixes of environments with distinct
\* names are distinct, and no lockfile lies under a prefix
PathsDistinct ==
    \A e, f \in EnvUniverse :
        /\ e # f => (lockfile_path(e) # lockfile_path(f) /\ prefix_path(e) # prefix_path(f))
        /\ SubSeq(lockfile_path(e), 1, 2) # SubSeq(prefix_path(f), 1, 2)

\* a lock, prepare or clean call of e leaves the lockfile, the prefix,
\* is_locked and is_prepared of every other environment as they were
OthersUnchanged ==
    \A e \in EnvNames :
        (Called("lock", e) \/ Called("prepare", e) \/ Called("clean", e)) =>
            \A f \in EnvNames \ {e} :
                /\ lockfile'[f] = lockfile[f]
                /\ prefix'[f] = prefix[f]
                /\ Locked(f)' = Locked(f)
                /\ Prepared(f)' = Prepared(f)

\* C19: environments with distinct names have distinct lockfile paths
\* <directory>/<name>.conda-lock.yml and distinct prefixes
\* <directory>/envs/<name>, and lock, prepare and clean calls of one
\* environment leave the lockfile, the prefix, is_locked and is_prepared of
\* every other environment unchanged.
C19_Isolation == []PathsDistinct /\ [][OthersUnchanged]_vars

\* C19 witness: an environment has been cleaned while another one is prepared
C19_Witness ==
    /\ last.op = "clean"
    /\ last.result = "ok"
    /\ prefix[last.env] = NoPrefix
    /\ \E f \in EnvNames \ {last.env} : Prepared(f) /\ prefix[f].gitignore

====
